---------------------------- MODULE Spec2Model ----------------------------
(***************************************************************************)
(* Model of the image-selectionVars controller of the Etcher GUI               *)
(* (lib/gui/pages/main/controllers/image-selectionVars.js): the MCU firmware   *)
(* updateVars check, the 'download-mcu' round trip with the main process, and  *)
(* the image selectionVars pipeline (metadata extraction, $timeout, warning    *)
(* modal, selectionVars-state store).                                          *)
(*                                                                         *)
(* JavaScript strings are sequences of one-character strings, so that the  *)
(* regular expression, String.prototype.replace, Array.prototype.sort and  *)
(* the semver parser are computed character by character.                  *)
(***************************************************************************)
EXTENDS Naturals, Integers, Sequences, FiniteSets, Bags, TLC

(***************************************************************************)
(* Bounds of the model.                                                    *)
(***************************************************************************)
\* number of checkForNewImage calls made by the view (on top of the one of init)
MaxChecks == 2
\* number of selectImage / selectImageByPath calls made by the view
MaxSelects == 2

(***************************************************************************)
(* Strings.                                                                *)
(***************************************************************************)
\* JavaScript null (and undefined); no string of characters equals it
null == <<"null">>

Digits == {"0", "1", "2", "3", "4", "5", "6", "7", "8", "9"}

\* the characters that occur in the model, in UTF-16 code unit order
Alphabet ==
    <<".", "0", "1", "2", "3", "4", "5", "6", "7", "8", "9", "_",
      "a", "b", "c", "d", "e", "f", "g", "h", "i", "j", "k", "l", "m",
      "n", "o", "p", "q", "r", "s", "t", "u", "v", "w", "x", "y", "z">>

CodeOf ==
    [c \in {Alphabet[i] : i \in 1..Len(Alphabet)} |->
        CHOOSE i \in 1..Len(Alphabet) : Alphabet[i] = c]
Code(c) == CodeOf[c]

\* a < b for strings, as the default comparison of Array.prototype.sort has it
\* (at the first position where they differ, a has ended or holds the lesser unit)
StrLess(a, b) ==
    \E k \in 1..Len(b) :
        /\ \A j \in 1..(k - 1) : j <= Len(a) /\ a[j] = b[j]
        /\ (k > Len(a) \/ Code(a[k]) < Code(b[k]))

\* does pat occur in s at position i
OccursAt(s, pat, i) ==
    /\ i >= 1
    /\ i + Len(pat) - 1 <= Len(s)
    /\ \A k \in 1..Len(pat) : s[i + k - 1] = pat[k]

\* String.prototype.replace(pat, '') with a string pattern: the first occurrence
ReplaceFirst(s, pat) ==
    LET hits == {i \in 1..Len(s) : OccursAt(s, pat, i)}
        first == CHOOSE i \in hits : \A j \in hits : i <= j
    IN  IF hits = {} THEN s
        ELSE SubSeq(s, 1, first - 1) \o SubSeq(s, first + Len(pat), Len(s))

\* the position after the run of digits that starts at i (i itself when none)
DigitsEnd(s, i) ==
    IF i > Len(s) THEN i
    ELSE CHOOSE j \in i..(Len(s) + 1) :
             /\ \A k \in i..(j - 1) : s[k] \in Digits
             /\ (j = Len(s) + 1 \/ s[j] \notin Digits)

McuPrefix == <<"m", "c", "u", "_">>
ImgZip == <<".", "i", "m", "g", ".", "z", "i", "p">>

\* file.match(/^mcu_v\d+\.\d+\.\d+\.img\.zip$/)
MatchesMcu(file) ==
    LET a == Len(McuPrefix) + 2
        b == DigitsEnd(file, a)
        c == DigitsEnd(file, b + 1)
        d == DigitsEnd(file, c + 1)
    IN  /\ OccursAt(file, McuPrefix \o <<"v">>, 1)
        /\ b > a /\ OccursAt(file, <<".">>, b)
        /\ c > b + 1 /\ OccursAt(file, <<".">>, c)
        /\ d > c + 1 /\ OccursAt(file, ImgZip, d)
        /\ d + Len(ImgZip) - 1 = Len(file)

\* the array sorted ascending; directory entries are distinct, so a set
\* (each name stands after the names less than it)
Sort(files) ==
    [i \in 1..Cardinality(files) |->
        CHOOSE f \in files : Cardinality({g \in files : StrLess(g, f)}) = i - 1]

Reverse(seq) == [i \in 1..Len(seq) |-> seq[Len(seq) + 1 - i]]

(***************************************************************************)
(* semver (strict mode).  The strings of the model hold no '-' and no '+', *)
(* so a version is v?<num>.<num>.<num> with <num> = 0|[1-9]\d*.            *)
(***************************************************************************)
\* the number a run of digits denotes
NumValue(ds) ==
    LET value[k \in 0..Len(ds)] ==
            IF k = 0 THEN 0 ELSE 10 * value[k - 1] + (Code(ds[k]) - Code("0"))
    IN  value[Len(ds)]

\* a numeric identifier without a leading zero
IsNumId(ds) ==
    /\ ds # <<>>
    /\ \A k \in 1..Len(ds) : ds[k] \in Digits
    /\ (Len(ds) > 1 => ds[1] # "0")

\* the three numeric identifiers of s when its dots stand at b and c and its
\* last digit at d - 1, or <<>> when that is no version
Identifiers(s, b, c, d) ==
    IF /\ OccursAt(s, <<".">>, b) /\ OccursAt(s, <<".">>, c) /\ d = Len(s) + 1
       /\ IsNumId(SubSeq(s, 1, b - 1))
       /\ IsNumId(SubSeq(s, b + 1, c - 1))
       /\ IsNumId(SubSeq(s, c + 1, d - 1))
    THEN <<NumValue(SubSeq(s, 1, b - 1)), NumValue(SubSeq(s, b + 1, c - 1)),
           NumValue(SubSeq(s, c + 1, d - 1))>>
    ELSE <<>>

\* s without the optional leading v
StripV(s) == IF s # <<>> /\ Head(s) = "v" THEN Tail(s) ELSE s

ParseFrom(s, b) == Identifiers(s, b, DigitsEnd(s, b + 1), DigitsEnd(s, DigitsEnd(s, b + 1) + 1))

\* new SemVer(version): its identifiers, or <<>> when the constructor throws
SemverParse(version) ==
    IF version = null THEN <<>>
    ELSE ParseFrom(StripV(version), DigitsEnd(StripV(version), 1))

\* the order of two parsed versions: major, then minor, then patch
CompareIdentifiers(x, y) ==
    IF x[1] # y[1] THEN (IF x[1] > y[1] THEN 1 ELSE -1)
    ELSE IF x[2] # y[2] THEN (IF x[2] > y[2] THEN 1 ELSE -1)
    ELSE IF x[3] # y[3] THEN (IF x[3] > y[3] THEN 1 ELSE -1)
    ELSE 0

Compared(x, y) ==
    IF x = <<>> \/ y = <<>>
    THEN [threw |-> TRUE, value |-> 0]
    ELSE [threw |-> FALSE, value |-> CompareIdentifiers(x, y)]

\* semver.compare(a, b): 1, 0 or -1; throws TypeError('Invalid Version') when
\* one of them does not parse
SemverCompare(a, b) == Compared(SemverParse(a), SemverParse(b))

\* a string or null taken as a condition
Truthy(s) == s # null /\ s # <<>>

\* this.updateAvailable(): its result, or the exception it lets through
Returned(c) == [threw |-> c.threw, value |-> (~c.threw /\ c.value > 0)]
updateAvailable(available, current) ==
    IF Truthy(available) /\ Truthy(current)
    THEN Returned(SemverCompare(available, current))
    ELSE [threw |-> FALSE, value |-> FALSE]

(***************************************************************************)
(* The collaborators of the controller that work on strings.               *)
(***************************************************************************)
\* path.join(dir, file) and path.basename(path)
PathJoin(dir, file) == [dir |-> dir, base |-> file]
Basename(p) == p.base
\* remote.app.getPath('downloads')
Downloads == "downloads"

\* the extensions the controller lists as the main supported ones
SupportedExtensions == {<<"i", "m", "g">>, <<"i", "s", "o">>, <<"z", "i", "p">>}

\* the part of a name after its last dot (the name itself when it has none)
Extension(name) ==
    LET dots == {i \in 1..Len(name) : name[i] = "."}
        last == CHOOSE i \in dots : \A j \in dots : j <= i
    IN  IF dots = {} THEN name ELSE SubSeq(name, last + 1, Len(name))

\* supportedFormats.isSupportedImage(path)
isSupportedImage(path) == Extension(Basename(path)) \in SupportedExtensions

\* supportedFormats.looksLikeWindowsImage(path)
looksLikeWindowsImage(path) ==
    \E i \in 1..Len(Basename(path)) : OccursAt(Basename(path), <<"w", "i", "n">>, i)

\* Boolean(value), for the values an image carries as logo and bmap
Boolean(value) == IF value \in {"undefined", "null", "false", "''"} THEN "false" ELSE "true"

(***************************************************************************)
(* The values the environment supplies.                                    *)
(***************************************************************************)
V120 == <<"1", ".", "2", ".", "0">>
V130 == <<"1", ".", "3", ".", "0">>
V190 == <<"1", ".", "9", ".", "0">>
V1100 == <<"1", ".", "1", "0", ".", "0">>
\* a tag that is no version
TagLatest == <<"l", "a", "t", "e", "s", "t">>

\* the name under which the main process stores the firmware of a version
McuFile(v) == McuPrefix \o <<"v">> \o v \o ImgZip
\* a name the naming convention leaves out (mcu_v1.2.img.zip)
PartialFile == McuPrefix \o <<"v", "1", ".", "2">> \o ImgZip

\* what fetch(...).then(reply => reply.json()).catch(err => null) resolves to:
\* null, or the parsed body.  A body without "assets" behaves as one whose
\* assets are empty in every line that reads it (210 and 235).
Asset(url) == [browser_download_url |-> url]
JsonNull == [kind |-> "null", tag_name |-> null, assets |-> <<>>]
Json(tag, assets) == [kind |-> "object", tag_name |-> tag, assets |-> assets]
Replies ==
    { JsonNull,
      Json(V130, <<>>),
      Json(V130, <<Asset("url-1.3.0-a"), Asset("url-1.3.0-b")>>),
      Json(V1100, <<Asset("url-1.10.0")>>),
      Json(TagLatest, <<Asset("url-latest")>>) }

\* what fs.readdirSync(downloads) does: it throws, or returns the entries
Unreadable == [readable |-> FALSE, files |-> {}]
Listing(files) == [readable |-> TRUE, files |-> files]
Listings ==
    { Unreadable,
      Listing({}),
      Listing({PartialFile}),
      Listing({McuFile(V120), McuFile(V130), PartialFile}),
      Listing({McuFile(V190), McuFile(V1100)}) }

\* the argument of the 'download-mcu' signal of the main process
Downloaded(imagePath) == [error |-> null, imagePath |-> imagePath]
Failed(error) == [error |-> error]
DownloadResults ==
    { Downloaded(PathJoin(Downloads, McuFile(V130))), Failed(<<"e">>) }

\* the images the view hands to the controller, by their path
NotesTxt == PathJoin("home", <<"n", "o", "t", "e", "s", ".", "t", "x", "t">>)
Win7Iso == PathJoin("home", <<"w", "i", "n", "7", ".", "i", "s", "o">>)
DiskImg == PathJoin("home", <<"d", "i", "s", "k", ".", "i", "m", "g">>)
UserPaths == {NotesTxt, Win7Iso, DiskImg}

\* what imageStream.getImageMetadata(path) resolves to, and what it rejects with
Image(path, hasMBR, logo, bmap) ==
    [path |-> path, hasMBR |-> hasMBR, logo |-> logo, bmap |-> bmap]
MetadataOf(path) ==
    { Image(path, TRUE, "'<svg/>'", "undefined"), Image(path, FALSE, "undefined", "true") }
ExtractionErrors == {<<"e">>}

VARIABLES
    downloading,        \* this.downloading
    availableVersion,   \* this.availableVersion
    currentVersion,     \* this.currentVersion
    selected,           \* the image of the selectionVars-state store: <<>> or <<image>>
    fetching,           \* bag of the checkForNewImage calls whose fetch is pending
    inflight,           \* 'download-mcu' requests sent and not yet answered
    extracting,         \* bag of the paths whose getImageMetadata is pending
    timeouts,           \* the images of the queued $timeout callbacks, in order
    thens,              \* bag of the selectImage calls whose .then is pending
    checks,             \* checkForNewImage calls the view has made
    selects,            \* selectImage and selectImageByPath calls the view has made
    recent,             \* the image of the most recent selectImage call: <<>> or <<image>>
    step,               \* the handler that ran last, with its inputs
    calls               \* the calls it made to the collaborators, in order

vars == <<downloading, availableVersion, currentVersion, selected, fetching, inflight,
          extracting, timeouts, thens, checks, selects, recent, step, calls>>

updateVars == <<downloading, availableVersion, currentVersion, fetching, inflight, checks>>
selectionVars == <<selected, timeouts, thens, selects, recent>>

Call(fn, arg) == [fn |-> fn, arg |-> arg]
\* a handler whose calls are cs has called fn (with arg)
Made(cs, fn) == \E i \in 1..Len(cs) : cs[i].fn = fn
MadeWith(cs, fn, arg) == \E i \in 1..Len(cs) : cs[i].fn = fn /\ cs[i].arg = arg
Called(fn) == Made(calls, fn)
CalledWith(fn, arg) == MadeWith(calls, fn, arg)
One(e) == SetToBag({e})

LogEvent(event, data) == Call("analytics.logEvent", [event |-> event, data |-> data])
ShowError(title, description) ==
    Call("osDialog.showError", [title |-> title, description |-> description])
Fetch == Call("fetch", "releases/latest")

(***************************************************************************)
(* checkForNewImage.                                                       *)
(***************************************************************************)
\* (a default of true, as a slip in the signature would have it)
AllowDownloadByDefault == TRUE

\* the default of the parameter of checkForNewImage
DefaultAllowDownload == FALSE

\* json != null && json.assets && json.assets.length > 0
HasRelease(json) == json.kind = "object" /\ Len(json.assets) > 0

\* dirs.filter(file => file.match(...)).sort().reverse()
McuImages(dirs) == Reverse(Sort({file \in dirs : MatchesMcu(file)}))

\* mcuImages[0].replace('mcu_', '').replace('.img.zip', '')
LatestDownload(mcuImages) == ReplaceFirst(ReplaceFirst(mcuImages[1], McuPrefix), ImgZip)

\* The listings, tags and versions of the model are finitely many: what the
\* code computes from them is computed once for each.
Scanned == [listing \in Listings |-> McuImages(listing.files)]
Latest ==
    [listing \in {l \in Listings : Len(Scanned[l]) > 0} |-> LatestDownload(Scanned[listing])]
AvailableVersions == {null} \cup {json.tag_name : json \in Replies}
CurrentVersions == {null} \cup {Latest[listing] : listing \in DOMAIN Latest}
UpdateAvailable ==
    [available \in AvailableVersions, current \in CurrentVersions |->
        updateAvailable(available, current)]

\* what the callback of checkForNewImage that receives json leaves behind: the
\* three fields, the path handed to selectImageByPath, the url sent to the main
\* process and what console.error wrote
Outcome(available, current, dl, sel, send, console) ==
    [availableVersion |-> available, currentVersion |-> current, downloading |-> dl,
     select |-> sel, send |-> send, console |-> console]

\* the catch block of the callback
Caught(available, current, dl, sel) ==
    Outcome(available, current, dl, sel, <<>>,
            <<Call("console.error", "Select image error")>>)

\* if (newImageAvailable && allowDownload) { ... }: json.assets[0] throws, after
\* the flag is set, when json is null or holds no asset
Download(available, current, dl, sel, json, newImageAvailable, allowDownload) ==
    IF newImageAvailable /\ allowDownload
    THEN IF json.kind = "null" \/ Len(json.assets) = 0
         THEN Caught(available, current, TRUE, sel)
         ELSE Outcome(available, current, TRUE, sel,
                      <<json.assets[1].browser_download_url>>, <<>>)
    ELSE Outcome(available, current, dl, sel, <<>>, <<>>)

\* the try block once readdirSync has returned
Listed(available, current, dl, json, listing, allowDownload) ==
    IF Len(Scanned[listing]) > 0
    THEN IF UpdateAvailable[available, Latest[listing]].threw
         THEN Caught(available, Latest[listing], dl, <<>>)
         ELSE Download(available, Latest[listing], dl,
                       <<PathJoin(Downloads, Scanned[listing][1])>>, json,
                       UpdateAvailable[available, Latest[listing]].value, allowDownload)
    ELSE Download(available, current, dl, <<>>, json, TRUE, allowDownload)

\* the callback, for the json the fetch gave and what readdirSync does
CheckThen(available, current, dl, json, listing, allowDownload) ==
    LET newest == IF HasRelease(json) THEN json.tag_name ELSE available
    IN  IF listing.readable
        THEN Listed(newest, current, dl, json, listing, allowDownload)
        ELSE Caught(newest, current, dl, <<>>)

(***************************************************************************)
(* downloadPrompt.                                                         *)
(***************************************************************************)
DownloadingLabel == <<"D", "o", "w", "n", "l", "o", "a", "d", "i", "n", "g", ".", ".", ".">>
DownloadLabel == <<"D", "o", "w", "n", "l", "o", "a", "d", " ">>

\* what the + of a string and value appends: the string, or "null" for null
StringOf(value) == IF value = null THEN <<"n", "u", "l", "l">> ELSE value

\* this.downloadPrompt()
downloadPrompt(dl, available) ==
    IF dl THEN DownloadingLabel ELSE DownloadLabel \o StringOf(available)

(***************************************************************************)
(* selectImage.                                                            *)
(***************************************************************************)
\* (the two tests of the Bluebird.try block in the other order)
WarningPartitionTableFirst(image) ==
    IF ~image.hasMBR THEN "missingPartitionTable"
    ELSE IF looksLikeWindowsImage(image.path) THEN "looksLikeWindowsImage"
    ELSE ""

\* the warning of the Bluebird.try block: the message, or "" for null
Warning(image) ==
    IF looksLikeWindowsImage(image.path) THEN "looksLikeWindowsImage"
    ELSE IF ~image.hasMBR THEN "missingPartitionTable"
    ELSE ""

WarningEvent(image) ==
    IF looksLikeWindowsImage(image.path) THEN "Possibly Windows image"
    ELSE "Missing partition table"

\* (selectImage committing the image before it displays the modal)
SelectImageCallsCommitFirst(image) ==
    IF ~isSupportedImage(image.path)
    THEN <<ShowError("Invalid image", [image |-> image]), LogEvent("Invalid image", image)>>
    ELSE IF Warning(image) # ""
    THEN <<LogEvent(WarningEvent(image), image),
           Call("selectionState.setImage", image),
           Call("WarningModalService.display", Warning(image))>>
    ELSE <<>>

\* Bluebird.try runs its function at once: the calls selectImage makes before
\* it returns
SelectImageCalls(image) ==
    IF ~isSupportedImage(image.path)
    THEN <<ShowError("Invalid image", [image |-> image]), LogEvent("Invalid image", image)>>
    ELSE IF Warning(image) # ""
    THEN <<LogEvent(WarningEvent(image), image),
           Call("WarningModalService.display", Warning(image))>>
    ELSE <<>>

\* (selectImage without the return that ends the branch of an invalid image)
SelectImagePendingNoReturn(image) == One([image |-> image, modal |-> (Warning(image) # "")])

\* the .then callbacks selectImage leaves pending: of a modal, or of the
\* promise that is already resolved with false
SelectImagePending(image) ==
    IF ~isSupportedImage(image.path) THEN EmptyBag
    ELSE One([image |-> image, modal |-> (Warning(image) # "")])

\* a .then callback of a settled promise is queued: it runs before any other event
Queued == \E t \in BagToSet(thens) : ~t.modal

\* the state once the constructor has run: init() has called checkForNewImage()
Init ==
    /\ downloading = FALSE
    /\ availableVersion = null
    /\ currentVersion = null
    /\ selected = <<>>
    /\ fetching = One([allowDownload |-> DefaultAllowDownload, origin |-> "init"])
    /\ inflight = 0
    /\ extracting = EmptyBag
    /\ timeouts = <<>>
    /\ thens = EmptyBag
    /\ checks = 0
    /\ selects = 0
    /\ recent = <<>>
    /\ step = [op |-> "init"]
    /\ calls = <<Fetch>>

\* the view calls checkForNewImage(allowDownload): the request is started
CheckForNewImage(allowDownload) ==
    /\ ~Queued
    /\ checks < MaxChecks
    /\ checks' = checks + 1
    /\ fetching' = fetching (+) One([allowDownload |-> allowDownload, origin |-> "view"])
    /\ step' = [op |-> "checkForNewImage", allowDownload |-> allowDownload]
    /\ calls' = <<Fetch>>
    /\ UNCHANGED <<downloading, availableVersion, currentVersion, inflight, extracting>>
    /\ UNCHANGED selectionVars

\* the fetch of one check settles and its callback runs
CheckSettled(f, json, listing) ==
    /\ ~Queued
    /\ BagIn(f, fetching)
    /\ LET r == CheckThen(availableVersion, currentVersion, downloading,
                          json, listing, f.allowDownload)
       IN  /\ availableVersion' = r.availableVersion
           /\ currentVersion' = r.currentVersion
           /\ downloading' = r.downloading
           /\ extracting' = IF r.select = <<>> THEN extracting
                            ELSE extracting (+) One(r.select[1])
           /\ inflight' = inflight + Len(r.send)
           /\ calls' = [i \in 1..Len(r.select) |-> Call("getImageMetadata", r.select[i])]
                       \o [i \in 1..Len(r.send) |-> Call("ipcRenderer.send", r.send[i])]
                       \o r.console
    /\ fetching' = fetching (-) One(f)
    /\ step' = [op |-> "checkForNewImage.then", allowDownload |-> f.allowDownload,
                origin |-> f.origin, json |-> json, listing |-> listing]
    /\ UNCHANGED checks
    /\ UNCHANGED selectionVars

\* the listener of 'download-mcu' runs for a request the main process answers
DownloadMcu(arg) ==
    /\ ~Queued
    /\ inflight > 0
    /\ inflight' = inflight - 1
    /\ downloading' = FALSE
    /\ IF arg.error = null
       THEN /\ extracting' = extracting (+) One(arg.imagePath)
            /\ fetching' = fetching (+)
                   One([allowDownload |-> DefaultAllowDownload, origin |-> "download-mcu"])
            /\ calls' = <<Call("getImageMetadata", arg.imagePath), Fetch>>
       ELSE /\ UNCHANGED <<extracting, fetching>>
            /\ calls' = <<>>
    /\ step' = [op |-> "download-mcu", arg |-> arg]
    /\ UNCHANGED <<availableVersion, currentVersion, checks>>
    /\ UNCHANGED selectionVars

\* the view calls downloadPrompt() for the label of its button
DownloadPrompt ==
    /\ ~Queued
    /\ step' = [op |-> "downloadPrompt",
                returned |-> downloadPrompt(downloading, availableVersion)]
    /\ calls' = <<>>
    /\ UNCHANGED <<extracting>>
    /\ UNCHANGED updateVars
    /\ UNCHANGED selectionVars

\* the view calls selectImageByPath(imagePath)
SelectImageByPath(imagePath) ==
    /\ ~Queued
    /\ selects < MaxSelects
    /\ selects' = selects + 1
    /\ extracting' = extracting (+) One(imagePath)
    /\ step' = [op |-> "selectImageByPath", imagePath |-> imagePath]
    /\ calls' = <<Call("getImageMetadata", imagePath)>>
    /\ UNCHANGED <<selected, timeouts, thens, recent>>
    /\ UNCHANGED updateVars

\* getImageMetadata resolves: the call of selectImage is handed to $timeout
MetadataResolved(imagePath, imageMetadata) ==
    /\ ~Queued
    /\ BagIn(imagePath, extracting)
    /\ extracting' = extracting (-) One(imagePath)
    /\ timeouts' = Append(timeouts, imageMetadata)
    /\ step' = [op |-> "getImageMetadata.then", imagePath |-> imagePath,
                imageMetadata |-> imageMetadata]
    /\ calls' = <<Call("$timeout", imageMetadata)>>
    /\ UNCHANGED <<selected, thens, selects, recent>>
    /\ UNCHANGED updateVars

\* (the error with the whole path in the place of the base name)
OpenImageErrorWholePath(imagePath, error) ==
    ShowError("Error opening image",
              [imageBasename |-> <<imagePath.dir, "/">> \o imagePath.base,
               errorMessage |-> error])

\* the user error of the catch block of selectImageByPath
OpenImageError(imagePath, error) ==
    ShowError("Error opening image",
              [imageBasename |-> Basename(imagePath), errorMessage |-> error])

\* getImageMetadata rejects: the error is shown
MetadataRejected(imagePath, error) ==
    /\ ~Queued
    /\ BagIn(imagePath, extracting)
    /\ extracting' = extracting (-) One(imagePath)
    /\ step' = [op |-> "getImageMetadata.catch", imagePath |-> imagePath, error |-> error]
    /\ calls' = <<OpenImageError(imagePath, error), Call("analytics.logException", error)>>
    /\ UNCHANGED selectionVars
    /\ UNCHANGED updateVars

\* selectImage(image) up to its return
SelectImage(image) ==
    /\ thens' = thens (+) SelectImagePending(image)
    /\ calls' = SelectImageCalls(image)
    /\ recent' = <<image>>
    /\ UNCHANGED selected
    /\ UNCHANGED updateVars

\* the first queued $timeout callback runs
Timeout ==
    /\ ~Queued
    /\ timeouts # <<>>
    /\ timeouts' = Tail(timeouts)
    /\ SelectImage(Head(timeouts))
    /\ step' = [op |-> "$timeout", image |-> Head(timeouts)]
    /\ UNCHANGED <<extracting, selects>>

\* the view calls selectImage(image)
ViewSelectImage(image) ==
    /\ ~Queued
    /\ selects < MaxSelects
    /\ selects' = selects + 1
    /\ SelectImage(image)
    /\ step' = [op |-> "selectImage", image |-> image]
    /\ UNCHANGED <<extracting, timeouts>>

\* this.reselectImage(): openImageSelector is not defined, so the call throws
\* and the .catch of selectImage reports it
ReselectImageCalls ==
    <<LogEvent("Reselect image", [previousImage |-> selected]),
      Call("exceptionReporter.report", "TypeError: this.openImageSelector is not a function")>>

\* the image as the assignments after setImage leave it
Coerced(image) == [image EXCEPT !.logo = Boolean(@), !.bmap = Boolean(@)]

\* (a callback that commits the image of the most recent selectImage call)
SelectImageThenCommitsRecent(t, shouldChange) ==
    /\ BagIn(t, thens)
    /\ (t.modal => ~Queued)
    /\ (~t.modal => ~shouldChange)
    /\ thens' = thens (-) One(t)
    /\ IF shouldChange
       THEN /\ calls' = ReselectImageCalls
            /\ UNCHANGED selected
       ELSE /\ selected' = recent
            /\ calls' = <<Call("selectionState.setImage", recent[1]),
                          LogEvent("Select image", Coerced(recent[1]))>>
    /\ step' = [op |-> "selectImage.then", image |-> t.image, modal |-> t.modal,
                shouldChange |-> shouldChange]
    /\ UNCHANGED <<extracting, timeouts, selects, recent>>
    /\ UNCHANGED updateVars

\* the .then callback of selectImage runs with what the promise resolved to
SelectImageThen(t, shouldChange) ==
    /\ BagIn(t, thens)
    /\ (t.modal => ~Queued)
    /\ (~t.modal => ~shouldChange)
    /\ thens' = thens (-) One(t)
    /\ IF shouldChange
       THEN /\ calls' = ReselectImageCalls
            /\ UNCHANGED selected
       ELSE /\ selected' = <<t.image>>
            /\ calls' = <<Call("selectionState.setImage", t.image),
                          LogEvent("Select image", Coerced(t.image))>>
    /\ step' = [op |-> "selectImage.then", image |-> t.image, modal |-> t.modal,
                shouldChange |-> shouldChange]
    /\ UNCHANGED <<extracting, timeouts, selects, recent>>
    /\ UNCHANGED updateVars

(***************************************************************************)
(* The update check and the selection pipeline share no field: the         *)
(* handlers of the one neither read nor write what the other reads (a      *)
(* queued .then callback only delays them).  Each is explored on its own,  *)
(* the update check with the extractions it starts left pending, the       *)
(* selection pipeline with the check that init() starts.                   *)
(***************************************************************************)
NextUpdate ==
    \/ \E allowDownload \in BOOLEAN : CheckForNewImage(allowDownload)
    \/ \E f \in BagToSet(fetching), json \in Replies, listing \in Listings :
           CheckSettled(f, json, listing)
    \/ \E arg \in DownloadResults : DownloadMcu(arg)
    \/ DownloadPrompt

NextSelect ==
    \/ \E f \in BagToSet(fetching), json \in Replies, listing \in Listings :
           CheckSettled(f, json, listing)
    \/ \E imagePath \in UserPaths : SelectImageByPath(imagePath)
    \/ \E imagePath \in BagToSet(extracting) : \E imageMetadata \in MetadataOf(imagePath) :
           MetadataResolved(imagePath, imageMetadata)
    \/ \E imagePath \in BagToSet(extracting), error \in ExtractionErrors :
           MetadataRejected(imagePath, error)
    \/ Timeout
    \/ \E imagePath \in UserPaths : \E image \in MetadataOf(imagePath) :
           ViewSelectImage(image)
    \/ \E t \in BagToSet(thens), shouldChange \in BOOLEAN : SelectImageThen(t, shouldChange)

Next == NextUpdate \/ NextSelect

Spec == Init /\ [][Next]_vars
SpecUpdate == Init /\ [][NextUpdate]_vars
SpecSelect == Init /\ [][NextSelect]_vars
(***************************************************************************)
(* Properties.                                                             *)
(***************************************************************************)
Settled == step.op = "checkForNewImage.then"

\* the names of a listing that follow the naming convention
Matching(listing) == {file \in listing.files : MatchesMcu(file)}

\* the newest of some firmware names: the last in the order of the names
NewestFirmware(files) == CHOOSE f \in files : \A g \in files \ {f} : StrLess(g, f)

\* C1: at most one download is in flight: while a 'download-mcu' request is
\* unanswered, no check sends a second one.
C1_AtMostOneDownloadInFlight == inflight <= 1

\* C2: downloading is true only while a 'download-mcu' request that was sent
\* is unanswered.
C2_DownloadingOnlyWhileRequested == downloading => inflight > 0

\* C3: when the fetch yields no release, the callback of checkForNewImage sends
\* no download request, leaves downloading (and availableVersion) as they
\* were and shows no error to the user, whatever allowDownload is.
C3_NoReleaseNoDownload ==
    [][(Settled' /\ ~HasRelease(step'.json)) =>
          /\ inflight' = inflight
          /\ ~Made(calls', "ipcRenderer.send")
          /\ ~Made(calls', "osDialog.showError")
          /\ downloading' = downloading
          /\ availableVersion' = availableVersion]_vars

\* C4: when the release is known and either updateAvailable() is true or no
\* local firmware file exists, checkForNewImage(true) sets downloading and
\* sends exactly one 'download-mcu' request with the url of the first asset;
\* checkForNewImage(false) sends none.
C4_DownloadWhenNewer ==
    [][(/\ Settled'
        /\ HasRelease(step'.json)
        /\ \/ updateAvailable(availableVersion', currentVersion').value
           \/ Matching(step'.listing) = {}) =>
          IF step'.allowDownload
          THEN /\ downloading'
               /\ inflight' = inflight + 1
               /\ MadeWith(calls', "ipcRenderer.send", step'.json.assets[1].browser_download_url)
               /\ Cardinality({i \in 1..Len(calls') : calls'[i].fn = "ipcRenderer.send"}) = 1
          ELSE /\ inflight' = inflight
               /\ ~Made(calls', "ipcRenderer.send")]_vars

\* C5: whatever the fetch yields, when the downloads directory is readable
\* and holds a firmware file, the callback of checkForNewImage hands the
\* newest of them to selectImageByPath.
C5_LocalSelectionWhateverTheRemote ==
    [][(Settled' /\ step'.listing.readable /\ Matching(step'.listing) # {}) =>
          /\ MadeWith(calls', "getImageMetadata",
                        PathJoin(Downloads, NewestFirmware(Matching(step'.listing))))
          /\ extracting' = extracting (+)
                 One(PathJoin(Downloads, NewestFirmware(Matching(step'.listing))))]_vars

\* C6: in every state updateAvailable() returns without an exception, and
\* returns true exactly when availableVersion and currentVersion both parse
\* and availableVersion is the greater one.
C6_UpdateAvailableTotal ==
    /\ ~updateAvailable(availableVersion, currentVersion).threw
    /\ updateAvailable(availableVersion, currentVersion).value <=>
          /\ SemverParse(availableVersion) # <<>>
          /\ SemverParse(currentVersion) # <<>>
          /\ CompareIdentifiers(SemverParse(availableVersion),
                                SemverParse(currentVersion)) = 1

\* C7: downloading goes from true to false only in the listener of
\* 'download-mcu', and then no other requested download is outstanding.
C7_ClearedOnlyByItsCompletion ==
    [][(downloading /\ ~downloading') =>
          (step'.op = "download-mcu" /\ inflight' = 0)]_vars

\* C8: the listener of 'download-mcu' clears downloading; without an error it
\* hands the downloaded path to selectImageByPath and starts a check with
\* allowDownload false, and the callback of that check sends no download
\* request; with an error it selects nothing and starts no check.
C8_CompletionNeverDownloadsAgain ==
    [][/\ step'.op = "download-mcu" =>
             /\ ~downloading'
             /\ IF step'.arg.error = null
                THEN /\ Len(calls') = 2
                     /\ calls'[1].fn = "getImageMetadata"
                     /\ calls'[1].arg = step'.arg.imagePath
                     /\ calls'[2].fn = "fetch"
                     /\ extracting' = extracting (+) One(step'.arg.imagePath)
                     /\ fetching' = fetching (+)
                            One([allowDownload |-> FALSE, origin |-> "download-mcu"])
                ELSE /\ Len(calls') = 0
                     /\ extracting' = extracting
                     /\ fetching' = fetching
       /\ (Settled' /\ step'.origin = "download-mcu") =>
             /\ ~step'.allowDownload
             /\ inflight' = inflight
             /\ ~Made(calls', "ipcRenderer.send")
             /\ downloading' = downloading]_vars

\* a check started by the listener has settled where a check allowed to
\* download would have sent a request: a release is known, no firmware is local
C8_Witness ==
    /\ Settled
    /\ step.origin = "download-mcu"
    /\ HasRelease(step.json)
    /\ step.listing = Listing({})
    /\ inflight = 0

\* C9: when readdirSync throws, the callback of checkForNewImage leaves the
\* fields, selects and requests a download exactly as it does for a directory
\* that holds no firmware file.
C9_UnreadableAsEmpty ==
    [][(Settled' /\ ~step'.listing.readable) =>
          LET empty == CheckThen(availableVersion, currentVersion, downloading,
                                 step'.json, Listing({}), step'.allowDownload)
          IN  /\ availableVersion' = empty.availableVersion
              /\ currentVersion' = empty.currentVersion
              /\ downloading' = empty.downloading
              /\ inflight' = inflight + Len(empty.send)
              /\ extracting' = extracting]_vars

\* C10: selectImage of an image whose path is no supported format shows the
\* 'Invalid image' error and logs the 'Invalid image' event, displays no
\* modal, leaves no .then pending and leaves the selected image as it was, so
\* that setImage is never called with such an image; an image whose path is
\* supported is never answered with the 'Invalid image' error.
C10_UnsupportedNeverSelected ==
    [][/\ step'.op \in {"selectImage", "$timeout"} =>
             IF ~isSupportedImage(step'.image.path)
             THEN /\ selected' = selected
                  /\ thens' = thens
                  /\ ~Made(calls', "WarningModalService.display")
                  /\ ~Made(calls', "selectionState.setImage")
                  /\ MadeWith(calls', "osDialog.showError",
                         [title |-> "Invalid image",
                          description |-> [image |-> step'.image]])
                  /\ MadeWith(calls', "analytics.logEvent",
                         [event |-> "Invalid image", data |-> step'.image])
             ELSE /\ ~Made(calls', "osDialog.showError")
                  /\ BagCardinality(thens') = BagCardinality(thens) + 1
                  /\ BagIn([image |-> step'.image, modal |-> (Warning(step'.image) # "")],
                           thens')
       /\ \A t \in BagToSet(thens') : isSupportedImage(t.image.path)
       /\ selected' # <<>> => isSupportedImage(selected'[1].path)
       /\ \A i \in 1..Len(calls') :
             calls'[i].fn = "selectionState.setImage" =>
                 isSupportedImage(calls'[i].arg.path)]_vars

\* an unsupported image has been handed to selectImage while another image
\* was selected
C10_Witness ==
    /\ step.op \in {"selectImage", "$timeout"}
    /\ ~isSupportedImage(step.image.path)
    /\ selected # <<>>
    /\ Called("osDialog.showError")

\* an image one of the two warnings applies to
NeedsConfirmation(image) == looksLikeWindowsImage(image.path) \/ ~image.hasMBR

\* C11: when the modal of a supported image that needs a confirmation resolves
\* true, the image is not committed, the selected image stays as it was, and
\* the image picker is opened again.
C11_ContinueReopensThePicker ==
    [][(step'.op = "selectImage.then" /\ step'.modal /\ step'.shouldChange) =>
          /\ selected' = selected
          /\ ~Made(calls', "selectionState.setImage")
          /\ Made(calls', "osDialog.selectImage")]_vars

\* C12: selectImage of a supported image never calls setImage before it
\* returns, and displays the modal exactly when the image needs a confirmation;
\* the callback of a displayed modal calls setImage with that image exactly when
\* the modal resolved false; the callback of an image without warning calls
\* setImage, no modal having been displayed.
C12_CommitWaitsForTheModal ==
    [][/\ (step'.op \in {"selectImage", "$timeout"} /\ isSupportedImage(step'.image.path)) =>
             /\ ~Made(calls', "selectionState.setImage")
             /\ selected' = selected
             /\ Made(calls', "WarningModalService.display") <=> NeedsConfirmation(step'.image)
             /\ BagIn([image |-> step'.image, modal |-> NeedsConfirmation(step'.image)], thens')
       /\ step'.op = "selectImage.then" =>
             /\ step'.modal = NeedsConfirmation(step'.image)
             /\ ~Made(calls', "WarningModalService.display")
             /\ MadeWith(calls', "selectionState.setImage", step'.image) <=> ~step'.shouldChange
             /\ Made(calls', "selectionState.setImage") <=> ~step'.shouldChange
             /\ ~step'.shouldChange => selected' = <<step'.image>>
             /\ step'.shouldChange => selected' = selected
             /\ ~step'.modal => ~step'.shouldChange]_vars

\* the modal of an image that needs a confirmation has resolved false, and the
\* image is committed
C12_Witness ==
    /\ step.op = "selectImage.then"
    /\ step.modal
    /\ NeedsConfirmation(step.image)
    /\ ~step.shouldChange
    /\ selected = <<step.image>>
    /\ CalledWith("selectionState.setImage", step.image)

\* strict booleans
IsBoolean(value) == value \in {"true", "false"}

\* C13: whenever setImage is called, the logo and the bmap of the image it
\* receives are strict booleans already.
C13_CoercedBeforeStored ==
    [][\A i \in 1..Len(calls') :
          calls'[i].fn = "selectionState.setImage" =>
              /\ IsBoolean(calls'[i].arg.logo)
              /\ IsBoolean(calls'[i].arg.bmap)]_vars

\* the modals a handler displayed
Displays(cs) == {i \in 1..Len(cs) : cs[i].fn = "WarningModalService.display"}

\* C17: a call of selectImage displays at most one modal; for a supported image
\* that looks like a Windows image the modal carries the Windows warning,
\* whatever hasMBR is; the warning of a missing partition table is displayed
\* only, and then always, when the image does not look like a Windows image
\* and hasMBR is false.
C17_OneModalWindowsFirst ==
    [][step'.op \in {"selectImage", "$timeout"} =>
          /\ Cardinality(Displays(calls')) <= 1
          /\ (isSupportedImage(step'.image.path) /\ looksLikeWindowsImage(step'.image.path)) =>
                /\ Displays(calls') # {}
                /\ \A i \in Displays(calls') : calls'[i].arg = "looksLikeWindowsImage"
          /\ MadeWith(calls', "WarningModalService.display", "missingPartitionTable") <=>
                /\ isSupportedImage(step'.image.path)
                /\ ~looksLikeWindowsImage(step'.image.path)
                /\ ~step'.image.hasMBR]_vars

\* selectImage has run for an image that looks like a Windows image and has no
\* partition table, and the modal carries the Windows warning
C17_Witness ==
    /\ step.op \in {"selectImage", "$timeout"}
    /\ isSupportedImage(step.image.path)
    /\ looksLikeWindowsImage(step.image.path)
    /\ ~step.image.hasMBR
    /\ Cardinality(Displays(calls)) = 1
    /\ CalledWith("WarningModalService.display", "looksLikeWindowsImage")

\* C18: when getImageMetadata rejects, the user is shown the 'Error opening
\* image' error with the base name of the path and the message of the error,
\* no call of selectImage is queued or made and the selected image stays as it
\* was; a call of selectImage is queued only by a getImageMetadata that
\* resolved, with the metadata of its path, and $timeout runs only queued calls.
C18_ExtractionFailureSelectsNothing ==
    [][/\ step'.op = "getImageMetadata.catch" =>
             /\ MadeWith(calls', "osDialog.showError",
                    [title |-> "Error opening image",
                     description |-> [imageBasename |-> step'.imagePath.base,
                                      errorMessage |-> step'.error]])
             /\ ~Made(calls', "$timeout")
             /\ ~Made(calls', "selectionState.setImage")
             /\ timeouts' = timeouts
             /\ thens' = thens
             /\ selected' = selected
       /\ Len(timeouts') > Len(timeouts) =>
             /\ step'.op = "getImageMetadata.then"
             /\ BagIn(step'.imagePath, extracting)
             /\ step'.imageMetadata.path = step'.imagePath
             /\ timeouts' = Append(timeouts, step'.imageMetadata)
       /\ step'.op = "$timeout" =>
             /\ timeouts # <<>>
             /\ step'.image = Head(timeouts)]_vars

\* an extraction has failed while an image was selected
C18_Witness ==
    /\ step.op = "getImageMetadata.catch"
    /\ selected # <<>>
    /\ Called("osDialog.showError")
    /\ ~Called("$timeout")

\* the version a firmware name carries, between "mcu_" and ".img.zip"
VersionOf(file) == SubSeq(file, Len(McuPrefix) + 1, Len(file) - Len(ImgZip))

\* C14: once the callback of a check has run, availableVersion is the tag of
\* the release that check fetched, and unset when it fetched none;
\* currentVersion is the version of a firmware file that check listed, and
\* unset when it listed none: no value of an earlier check is left.
C14_VersionsOfThisCheckOnly ==
    [][Settled' =>
          /\ availableVersion' =
                 IF HasRelease(step'.json) THEN step'.json.tag_name ELSE null
          /\ IF Matching(step'.listing) = {}
             THEN currentVersion' = null
             ELSE currentVersion' \in {VersionOf(file) : file \in Matching(step'.listing)}]_vars

\* C15: downloadPrompt() returns "Downloading..." when downloading is true;
\* otherwise it returns "Download " followed by availableVersion, and exactly
\* "Download " when no remote version is known.
C15_DownloadPromptLabel ==
    [][step'.op = "downloadPrompt" =>
          step'.returned =
              IF downloading
              THEN <<"D", "o", "w", "n", "l", "o", "a", "d", "i", "n", "g", ".", ".", ".">>
              ELSE <<"D", "o", "w", "n", "l", "o", "a", "d", " ">>
                   \o (IF availableVersion = null THEN <<>> ELSE availableVersion)]_vars

\* the firmware name of the greatest semantic version, for each listing that
\* holds one
GreatestFirmware ==
    [listing \in {l \in Listings : Matching(l) # {}} |->
        CHOOSE f \in Matching(listing) :
            \A g \in Matching(listing) :
                CompareIdentifiers(SemverParse(VersionOf(f)), SemverParse(VersionOf(g))) >= 0]

\* C16: when the downloads directory holds firmware files, the version the
\* callback of checkForNewImage stores in currentVersion is the greatest
\* semantic version among them, and the file it hands to selectImageByPath, if
\* it hands one, is the file of that version.
C16_LatestIsGreatestVersion ==
    [][(Settled' /\ Matching(step'.listing) # {}) =>
          /\ currentVersion' = VersionOf(GreatestFirmware[step'.listing])
          /\ \A i \in 1..Len(calls') :
                calls'[i].fn = "getImageMetadata" =>
                    calls'[i].arg = PathJoin(Downloads, GreatestFirmware[step'.listing])]_vars

\* The main process answers every 'download-mcu' request it received: the
\* listener runs once for each request in flight.
SpecDelivered ==
    SpecUpdate /\ WF_vars(\E arg \in DownloadResults : DownloadMcu(arg))

\* C19: whenever downloading is true, it is false again later, the main
\* process answering every request that was sent.
C19_DownloadingEventuallyCleared == downloading ~> ~downloading

\* C20: the selected image changes only in the .then callback of a selectImage
\* call that was pending, for an image of a supported format, whose promise
\* resolved false (the modal, if one was displayed); the callback that runs
\* last decides the selected image, whatever the most recent call of
\* selectImage was.
C20_StoreFollowsTheLastResolution ==
    [][/\ selected' # selected =>
             /\ step'.op = "selectImage.then"
             /\ ~step'.shouldChange
             /\ isSupportedImage(step'.image.path)
             /\ BagIn([image |-> step'.image, modal |-> step'.modal], thens)
       /\ step'.op = "selectImage.then" =>
             selected' = IF step'.shouldChange THEN selected ELSE <<step'.image>>]_vars

\* two selections were pending; the modal of the earlier call resolved last,
\* and its image is selected although selectImage was called for another
\* supported image since
C20_Witness ==
    /\ step.op = "selectImage.then"
    /\ step.modal
    /\ ~step.shouldChange
    /\ selected = <<step.image>>
    /\ thens = EmptyBag
    /\ recent # <<>>
    /\ recent[1] # step.image
    /\ isSupportedImage(recent[1].path)

=============================================================================
